---- MODULE Spec2Model ----
(***************************************************************************)
(* Model of the MARO grass master API server (jobs and nodes blueprints)   *)
(* and of the node-join script's DeploymentValidator.                      *)
(*                                                                         *)
(* Python dicts are functions from keys to values; the records of the      *)
(* redis store are kept per cluster in name_to_job_details and             *)
(* name_to_node_details, the two ticket lists in pending_job_tickets and    *)
(* killed_job_tickets.  A request handler is one action; what Flask hands   *)
(* back to the caller of the last request is kept in last.                 *)
(***************************************************************************)
EXTENDS Integers, Sequences, FiniteSets, TLC

VARIABLES
    name_to_job_details,    \* redis hash {cluster}:name_to_job_details
    name_to_node_details,   \* redis hash {cluster}:name_to_node_details
    pending_job_tickets,    \* redis list {cluster}:pending_job_tickets
    killed_job_tickets,     \* redis list {cluster}:killed_job_tickets
    last,                   \* the last request and what its caller saw
    created_job_names,      \* history: names passed to create_job so far
    reference_nodes,        \* history: the reference map of create/delete_node
    template_dict,          \* validate_and_fill_dict: the template
    actual_dict,            \* validate_and_fill_dict: the descriptor, filled in place
    optional_key_to_value,  \* validate_and_fill_dict: the optional keys' values
    validation,             \* how the call of validate_and_fill_dict ended
    given_dict,             \* history: the descriptor as it was handed in
    revalidation,           \* how a second call on the filled descriptor ended
    filled_dict,            \* history: the descriptor as the first call left it
    join_node_deployment,   \* join_node.py: the deployment loaded from the file
    join_pc,                \* join_node.py: the step the script is at
    join_log,               \* join_node.py: what this run has done so far
    join_error,             \* join_node.py: the exception that ended this run
    join_runs,              \* join_node.py: how many times the script was started
    join_previous,          \* history: how the previous run of the script ended
    in_flight,              \* concurrent requests: where each handler is
    started_from            \* history: the store when the requests came in

vars == <<name_to_job_details, name_to_node_details, pending_job_tickets,
          killed_job_tickets, last, created_job_names, reference_nodes,
          template_dict, actual_dict, optional_key_to_value, validation, given_dict,
          revalidation, filled_dict, join_node_deployment, join_pc, join_log,
          join_error, join_runs, join_previous, in_flight, started_from>>

store_vars == <<name_to_job_details, name_to_node_details, pending_job_tickets,
                killed_job_tickets>>

history_vars == <<created_job_names, reference_nodes>>

validator_vars == <<template_dict, actual_dict, optional_key_to_value, validation,
                    given_dict, revalidation, filled_dict>>

concurrent_vars == <<in_flight, started_from>>

join_vars == <<join_node_deployment, join_pc, join_log, join_error, join_runs,
               join_previous>>

(***************************************************************************)
(* Bounds of the model.                                                    *)
(***************************************************************************)
MaxQueue == 2

\* how many requests the master serves at the same time
MaxRequests == 3

\* how many times the join script is started on one machine
MaxRuns == 2

(***************************************************************************)
(* Python values.                                                          *)
(***************************************************************************)
EmptyDict == [k \in {} |-> ""]

\* d[key] = value on a dict
DictSet(d, key, value) ==
    [k \in DOMAIN d \cup {key} |-> IF k = key THEN value ELSE d[k]]

\* del d[key], tolerating an absent key (redis hdel)
DictDel(d, key) == [k \in DOMAIN d \ {key} |-> d[k]]

\* the orders in which a dict or a set may be iterated
Orders(S) ==
    {f \in [1..Cardinality(S) -> S] : \A i, j \in 1..Cardinality(S) : f[i] = f[j] => i = j}

\* how many times a ticket occurs in a list
Count(q, x) == Cardinality({i \in 1..Len(q) : q[i] = x})

(***************************************************************************)
(* The requests of the model.                                              *)
(***************************************************************************)
JobNames == {"j1", "j2"}

JobDocs ==
    {[name |-> "j1", image |-> "v1"], [name |-> "j1", image |-> "v2"],
     [name |-> "j2", image |-> "v1"]}

\* a job document without a name
NamelessJobDoc == [image |-> "v1"]

NodeNames == {"n1", "n2"}

PrivateIp(n) == IF n = "n1" THEN "10.0.0.1" ELSE "10.0.0.2"

\* the node section of a join descriptor plus a name: no containers yet
JoinedNodeDocs ==
    {[name |-> n, hostname |-> h, private_ip_address |-> PrivateIp(n)] :
        n \in NodeNames, h \in {"h1", "h2"}}

\* a node record as the node agent keeps it: with its containers
AgentNodeDocs ==
    {[name |-> "n1", hostname |-> "h1", private_ip_address |-> PrivateIp("n1"),
      containers |-> [c1 |-> "running"]],
     [name |-> "n2", hostname |-> "h1", private_ip_address |-> PrivateIp("n2"),
      containers |-> [c1 |-> "running", c2 |-> "exited"]]}

NodeDocs == JoinedNodeDocs \cup AgentNodeDocs

NamelessNodeDoc == [hostname |-> "h1", private_ip_address |-> "10.0.0.3"]

\* service_config of the master api server
service_config == [cluster_name |-> "maro", api_server_port |-> "port"]

(***************************************************************************)
(* RedisController: each call is one atomic redis command.                 *)
(***************************************************************************)
get_job_details(job_name) ==
    IF job_name \in DOMAIN name_to_job_details
    THEN [found |-> TRUE, record |-> name_to_job_details[job_name]]
    ELSE [found |-> FALSE]

set_job_details(details, job_name, job_details) == DictSet(details, job_name, job_details)

get_name_to_job_details == name_to_job_details

get_node_details(node_name) ==
    IF node_name \in DOMAIN name_to_node_details
    THEN [found |-> TRUE, record |-> name_to_node_details[node_name]]
    ELSE [found |-> FALSE]

set_node_details(details, node_name, node_details) == DictSet(details, node_name, node_details)

delete_node_details(details, node_name) == DictDel(details, node_name)

get_name_to_node_details == name_to_node_details

push_pending_job_ticket(tickets, job_name) == Append(tickets, job_name)

\* a removal that pops the head of the queue, whatever it names
remove_pending_job_ticket_pops_head(tickets, job_name) ==
    IF tickets = <<>> THEN tickets ELSE Tail(tickets)

remove_pending_job_ticket(tickets, job_name) == SelectSeq(tickets, LAMBDA t : t # job_name)

push_killed_job_ticket(tickets, job_name) == Append(tickets, job_name)

delete_pending_jobs_queue == <<>>

delete_killed_jobs_queue == <<>>

(***************************************************************************)
(* Flask: what the caller of a view function sees.  A dict (or a jsonify   *)
(* response) is a 200, None is not a valid response and an exception       *)
(* raised by the view is an internal server error.                         *)
(***************************************************************************)
Returned(op, arg, body) == [op |-> op, arg |-> arg, status |-> 200, body |-> body]

Raised(op, arg, error) == [op |-> op, arg |-> arg, status |-> 500, body |-> [error |-> error]]

ReturnedLookup(op, arg, details) ==
    IF details.found
    THEN Returned(op, arg, details.record)
    ELSE Raised(op, arg, "TypeError")

\* the response of clean_jobs together with the requests it sent to node agents
WithSent(response, sent) ==
    [f \in DOMAIN response \cup {"sent"} |-> IF f = "sent" THEN sent ELSE response[f]]

(***************************************************************************)
(* blueprints/jobs.py                                                      *)
(***************************************************************************)
\* values of a dict listed in one iteration order
Values(d, order) == [i \in 1..Len(order) |-> d[order[i]]]

list_jobs(order) ==
    /\ last' = Returned("list_jobs", "", Values(get_name_to_job_details, order))
    /\ UNCHANGED store_vars

get_job(job_name) ==
    /\ last' = ReturnedLookup("get_job", job_name, get_job_details(job_name))
    /\ UNCHANGED store_vars

\* create_job keeping the record a name already has (hsetnx for hset)
create_job_keeps_record(job_details) ==
    IF "name" \notin DOMAIN job_details
    THEN /\ last' = Raised("create_job", job_details, "KeyError")
         /\ UNCHANGED store_vars
    ELSE /\ name_to_job_details' =
                IF job_details["name"] \in DOMAIN name_to_job_details
                THEN name_to_job_details
                ELSE set_job_details(name_to_job_details, job_details["name"], job_details)
         /\ pending_job_tickets' =
                push_pending_job_ticket(pending_job_tickets, job_details["name"])
         /\ last' = Returned("create_job", job_details, EmptyDict)
         /\ UNCHANGED <<name_to_node_details, killed_job_tickets>>

\* create_job putting its ticket at the head of the list
create_job_pushes_front(job_details) ==
    IF "name" \notin DOMAIN job_details
    THEN /\ last' = Raised("create_job", job_details, "KeyError")
         /\ UNCHANGED store_vars
    ELSE /\ name_to_job_details' =
                set_job_details(name_to_job_details, job_details["name"], job_details)
         /\ pending_job_tickets' = <<job_details["name"]>> \o pending_job_tickets
         /\ last' = Returned("create_job", job_details, EmptyDict)
         /\ UNCHANGED <<name_to_node_details, killed_job_tickets>>

create_job(job_details) ==
    IF "name" \notin DOMAIN job_details
    THEN /\ last' = Raised("create_job", job_details, "KeyError")
         /\ UNCHANGED store_vars
    ELSE /\ name_to_job_details' =
                set_job_details(name_to_job_details, job_details["name"], job_details)
         /\ pending_job_tickets' =
                push_pending_job_ticket(pending_job_tickets, job_details["name"])
         /\ last' = Returned("create_job", job_details, EmptyDict)
         /\ UNCHANGED <<name_to_node_details, killed_job_tickets>>

\* delete_job pushing the killed ticket only for a job that was pending
delete_job_kills_pending_only(job_name) ==
    /\ pending_job_tickets' = remove_pending_job_ticket(pending_job_tickets, job_name)
    /\ killed_job_tickets' =
          IF Count(pending_job_tickets, job_name) > 0
          THEN push_killed_job_ticket(killed_job_tickets, job_name)
          ELSE killed_job_tickets
    /\ last' = Returned("delete_job", job_name, EmptyDict)
    /\ UNCHANGED <<name_to_job_details, name_to_node_details>>

delete_job(job_name) ==
    /\ pending_job_tickets' = remove_pending_job_ticket(pending_job_tickets, job_name)
    /\ killed_job_tickets' = push_killed_job_ticket(killed_job_tickets, job_name)
    /\ last' = Returned("delete_job", job_name, EmptyDict)
    /\ UNCHANGED <<name_to_job_details, name_to_node_details>>

\* the url of requests.delete in clean_jobs
ContainerUrl(node_private_ip_address, api_server_port, container_name) ==
    [host |-> node_private_ip_address, port |-> api_server_port,
     path |-> <<"containers", container_name>>]

\* The loop of clean_jobs from the i-th node of the iteration order on, sent
\* being the requests issued so far.  agents[n] tells how the node agent of n
\* answers: requests.delete returns whatever status the agent sends, and
\* raises only when the agent cannot be reached.
RECURSIVE FanOut(_, _, _, _, _)
FanOut(details, order, agents, i, sent) ==
    IF i > Len(order) THEN [sent |-> sent, error |-> "none"]
    ELSE LET node_details == details[order[i]]
         IN  IF "private_ip_address" \notin DOMAIN node_details
                 \/ "containers" \notin DOMAIN node_details
             THEN [sent |-> sent, error |-> "KeyError"]
             ELSE LET urls == {ContainerUrl(node_details["private_ip_address"],
                                            service_config["api_server_port"], c) :
                                   c \in DOMAIN node_details["containers"]}
                  IN  IF urls # {} /\ agents[order[i]] = "unreachable"
                      THEN [sent |-> sent, error |-> "ConnectionError"]
                      ELSE FanOut(details, order, agents, i + 1, sent \cup urls)

\* clean_jobs deleting the job records along with the queues
clean_jobs_drops_records(order, agents) ==
    /\ pending_job_tickets' = delete_pending_jobs_queue
    /\ killed_job_tickets' = delete_killed_jobs_queue
    /\ name_to_job_details' = EmptyDict
    /\ LET fan_out == FanOut(get_name_to_node_details, order, agents, 1, {})
       IN  last' = IF fan_out.error = "none"
                   THEN WithSent(Returned("clean_jobs", "", EmptyDict), fan_out.sent)
                   ELSE WithSent(Raised("clean_jobs", "", fan_out.error), fan_out.sent)
    /\ UNCHANGED name_to_node_details

\* clean_jobs deleting the queues after the fan-out instead of before it
clean_jobs_fans_out_first(order, agents) ==
    /\ LET fan_out == FanOut(get_name_to_node_details, order, agents, 1, {})
       IN  IF fan_out.error = "none"
           THEN /\ pending_job_tickets' = delete_pending_jobs_queue
                /\ killed_job_tickets' = delete_killed_jobs_queue
                /\ last' = WithSent(Returned("clean_jobs", "", EmptyDict), fan_out.sent)
           ELSE /\ UNCHANGED <<pending_job_tickets, killed_job_tickets>>
                /\ last' = WithSent(Raised("clean_jobs", "", fan_out.error), fan_out.sent)
    /\ UNCHANGED <<name_to_job_details, name_to_node_details>>

\* clean_jobs dropping the node records when its fan-out stops on an error
clean_jobs_forgets_nodes(order, agents) ==
    /\ pending_job_tickets' = delete_pending_jobs_queue
    /\ killed_job_tickets' = delete_killed_jobs_queue
    /\ LET fan_out == FanOut(get_name_to_node_details, order, agents, 1, {})
       IN  /\ last' = IF fan_out.error = "none"
                      THEN WithSent(Returned("clean_jobs", "", EmptyDict), fan_out.sent)
                      ELSE WithSent(Raised("clean_jobs", "", fan_out.error), fan_out.sent)
           /\ name_to_node_details' =
                 IF fan_out.error = "none" THEN name_to_node_details ELSE EmptyDict
    /\ UNCHANGED name_to_job_details

clean_jobs(order, agents) ==
    /\ pending_job_tickets' = delete_pending_jobs_queue
    /\ killed_job_tickets' = delete_killed_jobs_queue
    /\ LET fan_out == FanOut(get_name_to_node_details, order, agents, 1, {})
       IN  last' = IF fan_out.error = "none"
                   THEN WithSent(Returned("clean_jobs", "", EmptyDict), fan_out.sent)
                   ELSE WithSent(Raised("clean_jobs", "", fan_out.error), fan_out.sent)
    /\ UNCHANGED <<name_to_job_details, name_to_node_details>>

(***************************************************************************)
(* blueprints/nodes.py                                                     *)
(***************************************************************************)
list_nodes(order) ==
    /\ last' = Returned("list_nodes", "", Values(get_name_to_node_details, order))
    /\ UNCHANGED store_vars

get_node(node_name) ==
    /\ last' = ReturnedLookup("get_node", node_name, get_node_details(node_name))
    /\ UNCHANGED store_vars

\* create_node storing the record under the hostname instead of the name
create_node_keyed_by_hostname(node_details) ==
    IF "name" \notin DOMAIN node_details
    THEN /\ last' = Raised("create_node", node_details, "KeyError")
         /\ UNCHANGED store_vars
    ELSE /\ name_to_node_details' =
                set_node_details(name_to_node_details, node_details["hostname"], node_details)
         /\ last' = Returned("create_node", node_details, EmptyDict)
         /\ UNCHANGED <<name_to_job_details, pending_job_tickets, killed_job_tickets>>

\* create_node refusing a name that has a record already
create_node_once(node_details) ==
    IF "name" \notin DOMAIN node_details
    THEN /\ last' = Raised("create_node", node_details, "KeyError")
         /\ UNCHANGED store_vars
    ELSE IF get_node_details(node_details["name"]).found
    THEN /\ last' = Raised("create_node", node_details, "Conflict")
         /\ UNCHANGED store_vars
    ELSE /\ name_to_node_details' =
                set_node_details(name_to_node_details, node_details["name"], node_details)
         /\ last' = Returned("create_node", node_details, EmptyDict)
         /\ UNCHANGED <<name_to_job_details, pending_job_tickets, killed_job_tickets>>

create_node(node_details) ==
    IF "name" \notin DOMAIN node_details
    THEN /\ last' = Raised("create_node", node_details, "KeyError")
         /\ UNCHANGED store_vars
    ELSE /\ name_to_node_details' =
                set_node_details(name_to_node_details, node_details["name"], node_details)
         /\ last' = Returned("create_node", node_details, EmptyDict)
         /\ UNCHANGED <<name_to_job_details, pending_job_tickets, killed_job_tickets>>

delete_node(node_name) ==
    /\ name_to_node_details' = delete_node_details(name_to_node_details, node_name)
    /\ last' = Returned("delete_node", node_name, EmptyDict)
    /\ UNCHANGED <<name_to_job_details, pending_job_tickets, killed_job_tickets>>

(***************************************************************************)
(* scripts/node/join_node.py: MasterApiClientV1                            *)
(***************************************************************************)
\* the dict built from the body of GET /nodes, a later entry of the list
\* replacing an earlier one of the same name
RECURSIVE NameToDetails(_, _)
NameToDetails(nodes_details, i) ==
    IF i = 0 THEN EmptyDict
    ELSE DictSet(NameToDetails(nodes_details, i - 1),
                 nodes_details[i]["name"], nodes_details[i])

MasterApiClientV1_get_name_to_node_details(nodes_details) ==
    NameToDetails(nodes_details, Len(nodes_details))

(***************************************************************************)
(* Python strings whose characters matter are sequences of characters.     *)
(***************************************************************************)
\* str.strip(chars): drop leading and trailing characters that are in chars
RECURSIVE LStrip(_, _)
LStrip(str, chars) ==
    IF str # <<>> /\ Head(str) \in chars THEN LStrip(Tail(str), chars) ELSE str

RECURSIVE RStrip(_, _)
RStrip(str, chars) ==
    IF str # <<>> /\ str[Len(str)] \in chars
    THEN RStrip(SubSeq(str, 1, Len(str) - 1), chars)
    ELSE str

Strip(str, chars) == RStrip(LStrip(str, chars), chars)

\* the characters of a string
Chars(str) == {str[i] : i \in 1..Len(str)}

\* str.split(sep) for a non-empty sep; current is the piece being read
RECURSIVE SplitFrom(_, _, _)
SplitFrom(str, sep, current) ==
    IF Len(str) >= Len(sep) /\ SubSeq(str, 1, Len(sep)) = sep
    THEN <<current>> \o SplitFrom(SubSeq(str, Len(sep) + 1, Len(str)), sep, <<>>)
    ELSE IF str = <<>> THEN <<current>>
    ELSE SplitFrom(Tail(str), sep, Append(current, Head(str)))

Split(str, sep) == SplitFrom(str, sep, <<>>)

(***************************************************************************)
(* Nested documents: a value is a scalar (Leaf) or a dict (Map).           *)
(***************************************************************************)
Leaf(value) == [leaf |-> value]

Map(dict) == [map |-> dict]

IsMap(value) == "map" \in DOMAIN value

(***************************************************************************)
(* deepdiff.DeepDiff(t1, t2).to_dict()["dictionary_item_removed"]: the     *)
(* paths, in deepdiff's text form root['k1']['k2'], of the keys that a     *)
(* dict of t1 has and the dict at the same place of t2 has not.  Values of *)
(* different types are a type change and are not descended into.           *)
(***************************************************************************)
PathExtend(path_str, key) == path_str \o <<"[", "'">> \o key \o <<"'", "]">>

Root == <<"r", "o", "o", "t">>

RECURSIVE DictionaryItemRemoved(_, _, _)
DictionaryItemRemoved(t1, t2, path_str) ==
    IF IsMap(t1) /\ IsMap(t2)
    THEN UNION {IF key \in DOMAIN t2.map
                THEN DictionaryItemRemoved(t1.map[key], t2.map[key], PathExtend(path_str, key))
                ELSE {PathExtend(path_str, key)} : key \in DOMAIN t1.map}
    ELSE {}

(***************************************************************************)
(* scripts/node/join_node.py: DeploymentValidator                          *)
(***************************************************************************)
_get_parent_to_child_key_list(deep_diff_str) ==
    Split(Strip(Strip(deep_diff_str, Chars(Root \o <<"[", "'">>)), Chars(<<"'", "]">>)),
          <<"'", "]", "[", "'">>)

\* original_dict with value stored under the path key_list: operator.getitem
\* along key_list[:-1], then an item assignment; a dict without the key
\* raises KeyError, a value that is no dict raises TypeError
RECURSIVE _set_value(_, _, _)
_set_value(original_dict, key_list, value) ==
    IF ~IsMap(original_dict) THEN [raised |-> "TypeError"]
    ELSE IF Len(key_list) = 1
    THEN [raised |-> "none", dict |-> Map(DictSet(original_dict.map, key_list[1], value))]
    ELSE IF key_list[1] \notin DOMAIN original_dict.map THEN [raised |-> "KeyError"]
    ELSE LET sub == _set_value(original_dict.map[key_list[1]], Tail(key_list), value)
         IN  IF sub.raised # "none" THEN sub
             ELSE [raised |-> "none",
                   dict |-> Map(DictSet(original_dict.map, key_list[1], sub.dict))]

\* the loop of validate_and_fill_dict from the i-th missing key on
RECURSIVE FillFrom(_, _, _, _)
FillFrom(actual, optional, missing_key_strs, i) ==
    IF i > Len(missing_key_strs)
    THEN [raised |-> "none", key |-> <<>>, actual_dict |-> actual]
    ELSE LET missing_key_str == missing_key_strs[i]
         IN  IF missing_key_str \notin DOMAIN optional
             THEN [raised |-> "KeyNotFound", key |-> missing_key_str, actual_dict |-> actual]
             ELSE LET set == _set_value(actual,
                                        _get_parent_to_child_key_list(missing_key_str),
                                        optional[missing_key_str])
                  IN  IF set.raised # "none"
                      THEN [raised |-> set.raised, key |-> missing_key_str,
                            actual_dict |-> actual]
                      ELSE FillFrom(set.dict, optional, missing_key_strs, i + 1)

\* missing_key_strs: the removed items of the diff in the order of iteration
validate_and_fill_dict(template, actual, optional, missing_key_strs) ==
    FillFrom(actual, optional, missing_key_strs, 1)

(***************************************************************************)
(* The master api server serving one request after another.               *)
(***************************************************************************)
NotCalled == [raised |-> "not_called", key |-> <<>>]

EmptyStore == [jobs |-> EmptyDict, pending |-> <<>>, killed |-> <<>>]

NotRun == [log |-> <<>>, error |-> "not_run"]

Init ==
    /\ name_to_job_details = EmptyDict
    /\ name_to_node_details = EmptyDict
    /\ pending_job_tickets = <<>>
    /\ killed_job_tickets = <<>>
    /\ last = Returned("start", "", EmptyDict)
    /\ created_job_names = {}
    /\ reference_nodes = EmptyDict
    /\ template_dict = Map(EmptyDict)
    /\ actual_dict = Map(EmptyDict)
    /\ optional_key_to_value = EmptyDict
    /\ validation = NotCalled
    /\ given_dict = Map(EmptyDict)
    /\ revalidation = NotCalled
    /\ filled_dict = Map(EmptyDict)
    /\ join_node_deployment = Map(EmptyDict)
    /\ join_pc = "not_started"
    /\ join_log = <<>>
    /\ join_error = "none"
    /\ join_runs = 0
    /\ join_previous = NotRun
    /\ in_flight = EmptyDict
    /\ started_from = EmptyStore

AgentAnswers == {"ok", "http_error", "unreachable"}

ListJobs ==
    /\ \E order \in Orders(DOMAIN name_to_job_details) : list_jobs(order)
    /\ UNCHANGED <<history_vars, validator_vars, join_vars, concurrent_vars>>

GetJob ==
    /\ \E job_name \in JobNames : get_job(job_name)
    /\ UNCHANGED <<history_vars, validator_vars, join_vars, concurrent_vars>>

CreateJob ==
    /\ Len(pending_job_tickets) < MaxQueue
    /\ \E job_details \in JobDocs \cup {NamelessJobDoc} :
          /\ create_job(job_details)
          /\ created_job_names' =
                IF "name" \in DOMAIN job_details
                THEN created_job_names \cup {job_details["name"]}
                ELSE created_job_names
    /\ UNCHANGED <<reference_nodes, validator_vars, join_vars, concurrent_vars>>

DeleteJob ==
    /\ Len(killed_job_tickets) < MaxQueue
    /\ \E job_name \in JobNames : delete_job(job_name)
    /\ UNCHANGED <<history_vars, validator_vars, join_vars, concurrent_vars>>

CleanJobs ==
    /\ \E order \in Orders(DOMAIN name_to_node_details) :
          \E agents \in [NodeNames -> AgentAnswers] : clean_jobs(order, agents)
    /\ UNCHANGED <<history_vars, validator_vars, join_vars, concurrent_vars>>

ListNodes ==
    /\ \E order \in Orders(DOMAIN name_to_node_details) : list_nodes(order)
    /\ UNCHANGED <<history_vars, validator_vars, join_vars, concurrent_vars>>

GetNode ==
    /\ \E node_name \in NodeNames : get_node(node_name)
    /\ UNCHANGED <<history_vars, validator_vars, join_vars, concurrent_vars>>

CreateNode ==
    /\ \E node_details \in NodeDocs \cup {NamelessNodeDoc} :
          /\ create_node(node_details)
          /\ reference_nodes' =
                IF "name" \in DOMAIN node_details
                THEN DictSet(reference_nodes, node_details["name"], node_details)
                ELSE reference_nodes
    /\ UNCHANGED <<created_job_names, validator_vars, join_vars, concurrent_vars>>

DeleteNode ==
    /\ \E node_name \in NodeNames :
          /\ delete_node(node_name)
          /\ reference_nodes' = DictDel(reference_nodes, node_name)
    /\ UNCHANGED <<created_job_names, validator_vars, join_vars, concurrent_vars>>

Next ==
    \/ ListJobs
    \/ GetJob
    \/ CreateJob
    \/ DeleteJob
    \/ CleanJobs
    \/ ListNodes
    \/ GetNode
    \/ CreateNode
    \/ DeleteNode

Spec == Init /\ [][Next]_vars

(***************************************************************************)
(* One call of validate_and_fill_dict on a template, a descriptor and      *)
(* optional values drawn from small sets.                                  *)
(***************************************************************************)
K_node == <<"n", "o", "d", "e">>

K_os == <<"o", "s">>

K_gpu == <<"g", "p", "u">>

TopKeys == {K_node, K_os}

SubKeys == {K_gpu, K_os}

\* the dicts over keys whose values are drawn from values
Dicts(keys, values) == UNION {[present -> values] : present \in SUBSET keys}

\* documents of up to two levels with the scalars of leaves
Documents(leaves) ==
    {Map(d) : d \in Dicts(TopKeys, leaves \cup {Map(sub) : sub \in Dicts(SubKeys, leaves)})}

Templates == Documents({Leaf("")})

\* the descriptors: dicts whose scalars differ from the optional values
Descriptors == Documents({Leaf("x")})

\* the paths of the keys of a document, in deepdiff's text form
RECURSIVE KeyPaths(_, _)
KeyPaths(value, path_str) ==
    IF IsMap(value)
    THEN UNION {{PathExtend(path_str, key)}
                    \cup KeyPaths(value.map[key], PathExtend(path_str, key)) :
                key \in DOMAIN value.map}
    ELSE {}

\* the values of optional keys: a scalar or an empty dict
OptionalValues == {Leaf(""), Map(EmptyDict)}

InitValidator ==
    /\ name_to_job_details = EmptyDict
    /\ name_to_node_details = EmptyDict
    /\ pending_job_tickets = <<>>
    /\ killed_job_tickets = <<>>
    /\ last = Returned("start", "", EmptyDict)
    /\ created_job_names = {}
    /\ reference_nodes = EmptyDict
    /\ template_dict \in Templates
    /\ actual_dict \in Descriptors
    /\ optional_key_to_value \in Dicts(KeyPaths(template_dict, Root), OptionalValues)
    /\ validation = NotCalled
    /\ given_dict = actual_dict
    /\ revalidation = NotCalled
    /\ filled_dict = actual_dict
    /\ join_node_deployment = Map(EmptyDict)
    /\ join_pc = "not_started"
    /\ join_log = <<>>
    /\ join_error = "none"
    /\ join_runs = 0
    /\ join_previous = NotRun
    /\ in_flight = EmptyDict
    /\ started_from = EmptyStore

ValidateAndFill ==
    /\ validation = NotCalled
    /\ \E missing_key_strs \in Orders(DictionaryItemRemoved(template_dict, actual_dict, Root)) :
          LET filled == validate_and_fill_dict(template_dict, actual_dict,
                                               optional_key_to_value, missing_key_strs)
          IN  /\ actual_dict' = filled.actual_dict
              /\ filled_dict' = filled.actual_dict
              /\ validation' = [raised |-> filled.raised, key |-> filled.key]
    /\ UNCHANGED <<template_dict, optional_key_to_value, given_dict, revalidation>>
    /\ UNCHANGED <<store_vars, last, history_vars, join_vars, concurrent_vars>>

\* a second call with the same template and optional keys on the descriptor
\* that a first, successful call has filled
ValidateAndFillAgain ==
    /\ validation # NotCalled
    /\ validation.raised = "none"
    /\ revalidation = NotCalled
    /\ \E missing_key_strs \in Orders(DictionaryItemRemoved(template_dict, actual_dict, Root)) :
          LET filled == validate_and_fill_dict(template_dict, actual_dict,
                                               optional_key_to_value, missing_key_strs)
          IN  /\ actual_dict' = filled.actual_dict
              /\ revalidation' = [raised |-> filled.raised, key |-> filled.key]
    /\ UNCHANGED <<template_dict, optional_key_to_value, given_dict, validation, filled_dict>>
    /\ UNCHANGED <<store_vars, last, history_vars, join_vars, concurrent_vars>>

NextValidator ==
    \/ ValidateAndFill
    \/ ValidateAndFillAgain

SpecValidator == InitValidator /\ [][NextValidator]_vars

(***************************************************************************)
(* scripts/node/join_node.py: the script joining a node to the cluster.   *)
(***************************************************************************)
K_mode == <<"m", "o", "d", "e">>

K_master == <<"m", "a", "s", "t", "e", "r">>

K_hostname == <<"h", "o", "s", "t", "n", "a", "m", "e">>

K_name == <<"n", "a", "m", "e">>

K_public_ip_address == <<"p", "u", "b", "l", "i", "c", "_", "i", "p", "_", "a", "d", "d", "r", "e", "s", "s">>

K_private_ip_address == <<"p", "r", "i", "v", "a", "t", "e", "_", "i", "p", "_", "a", "d", "d", "r", "e", "s", "s">>

K_resources == <<"r", "e", "s", "o", "u", "r", "c", "e", "s">>

K_cpu == <<"c", "p", "u">>

K_memory == <<"m", "e", "m", "o", "r", "y">>

K_connection == <<"c", "o", "n", "n", "e", "c", "t", "i", "o", "n">>

K_api_server == <<"a", "p", "i", "_", "s", "e", "r", "v", "e", "r">>

K_port == <<"p", "o", "r", "t">>

\* the keys of a join deployment as strings of a json document
KeyNames ==
    {"mode", "master", "hostname", "name", "public_ip_address", "private_ip_address",
     "resources", "cpu", "memory", "connection", "api_server", "port", "node", "gpu"}

Characters(key_name) ==
    CASE key_name = "mode" -> K_mode
      [] key_name = "master" -> K_master
      [] key_name = "hostname" -> K_hostname
      [] key_name = "name" -> K_name
      [] key_name = "public_ip_address" -> K_public_ip_address
      [] key_name = "private_ip_address" -> K_private_ip_address
      [] key_name = "resources" -> K_resources
      [] key_name = "cpu" -> K_cpu
      [] key_name = "memory" -> K_memory
      [] key_name = "connection" -> K_connection
      [] key_name = "api_server" -> K_api_server
      [] key_name = "port" -> K_port
      [] key_name = "node" -> K_node
      [] key_name = "gpu" -> K_gpu

\* a dict over the given keys with the scalar value at each
Scalars(keys, value) == Map([key \in keys |-> Leaf(value)])

\* standardize_join_node_deployment: join_node_deployment_template
join_node_deployment_template ==
    Map((K_mode :> Leaf(""))
        @@ (K_master :> Scalars({K_hostname}, ""))
        @@ (K_node :> Map((K_hostname :> Leaf(""))
                          @@ (K_public_ip_address :> Leaf(""))
                          @@ (K_private_ip_address :> Leaf(""))
                          @@ (K_resources :> Scalars({K_cpu, K_memory, K_gpu}, ""))))
        @@ (K_connection :> Map(K_api_server :> Scalars({K_port}, ""))))

\* the node section of a deployment, with or without a name
NodeSection(with_name, hostname) ==
    Map((K_hostname :> Leaf(hostname))
        @@ (K_public_ip_address :> Leaf("52.0.0.1"))
        @@ (K_private_ip_address :> Leaf(PrivateIp("n1")))
        @@ (K_resources :> Scalars({K_cpu, K_memory, K_gpu}, "2"))
        @@ (IF with_name THEN K_name :> Leaf("n1") ELSE <<>>))

\* a deployment that has every key of the template
Deployment(node) ==
    Map((K_mode :> Leaf("grass/on-premises"))
        @@ (K_master :> Scalars({K_hostname}, "master"))
        @@ (K_node :> node)
        @@ (K_connection :> Map(K_api_server :> Scalars({K_port}, "port"))))

\* a deployment without one of its top-level keys
Without(deployment, key) == Map(DictDel(deployment.map, key))

\* the deployments that the script is started with: complete ones, one whose
\* node has no name, ones that lack a key of the template, and one with a
\* scalar where the template has a dict
JoinDeployments ==
    {Deployment(NodeSection(TRUE, "h1")),
     Deployment(NodeSection(FALSE, "h1")),
     Without(Deployment(NodeSection(TRUE, "h1")), K_master),
     Deployment(Map(DictDel(NodeSection(TRUE, "h1").map, K_resources))),
     Map(DictSet(Deployment(NodeSection(TRUE, "h1")).map, K_master, Leaf("master")))}

\* json of a document: what requests.post(json=...) sends and request.json reads
RECURSIVE Json(_)
Json(value) ==
    IF IsMap(value)
    THEN [key_name \in {n \in KeyNames : Characters(n) \in DOMAIN value.map} |->
             Json(value.map[Characters(key_name)])]
    ELSE value.leaf

\* how many commands the script of a step holds, a pipeline being one command
CommandLines(step) ==
    CASE step = "create_docker_user" -> 2
      [] step = "setup_samba_mount" -> 3
      [] step = "start_node_agent_service" -> 4
      [] step = "start_node_api_server_service" -> 4

\* /bin/bash -c script: the commands run one after another whatever their exit
\* codes, and the exit code of the script is the one of its last command
bash_returncode(exit_codes) == exit_codes[Len(exit_codes)]

\* Subprocess.run: raises when the script exits with another code than 0
Subprocess_run(returncode) == IF returncode # 0 THEN "Exception" ELSE "none"

\* response.json() of MasterApiClientV1: the body of an error page is no json
response_json(status) == IF status = 200 THEN "none" ELSE "JSONDecodeError"

\* __main__ and NodeInitializer.__init__: the step that follows a step which
\* did not raise
main_next(step) ==
    CASE step = "validate" -> "create_node"
      [] step = "create_node" -> "get_cluster"
      [] step = "get_cluster" -> "get_master"
      [] step = "get_master" -> "create_docker_user"
      [] step = "create_docker_user" -> "setup_samba_mount"
      [] step = "setup_samba_mount" -> "start_node_agent_service"
      [] step = "start_node_agent_service" -> "start_node_api_server_service"
      [] step = "start_node_api_server_service" -> "done"

\* a script that goes on with the next step after a step has raised
main_after_goes_on(step, error) ==
    /\ join_error' = error
    /\ join_pc' = IF step = "start_node_api_server_service" /\ error # "none"
                  THEN "aborted"
                  ELSE main_next(step)

\* a step has ended: an exception that nobody catches ends the script,
\* otherwise the script goes on with the next step
main_after(step, error) ==
    /\ join_error' = error
    /\ join_pc' = IF error # "none" THEN "aborted" ELSE main_next(step)

\* value[key] of python on a document: a str has no str index, a dict may
\* lack the key
GetItem(value, key) ==
    IF value.raised # "none" THEN value
    ELSE IF ~IsMap(value.value) THEN [raised |-> "TypeError"]
    ELSE IF key \notin DOMAIN value.value.map THEN [raised |-> "KeyError"]
    ELSE [raised |-> "none", value |-> value.value.map[key]]

\* value[key1][key2]...
RECURSIVE GetPath(_, _)
GetPath(value, key_list) ==
    IF key_list = <<>> THEN [raised |-> "none", value |-> value]
    ELSE GetItem(GetPath(value, SubSeq(key_list, 1, Len(key_list) - 1)),
                 key_list[Len(key_list)])

\* NodeInitializer.__init__: what the script reads from the deployment
\* before it sends the node to the master
FirstRaised(values) ==
    IF \A i \in DOMAIN values : values[i].raised = "none" THEN "none"
    ELSE values[CHOOSE i \in DOMAIN values :
                    /\ values[i].raised # "none"
                    /\ \A j \in 1..(i - 1) : values[j].raised = "none"].raised

NodeInitializer_arguments(deployment) ==
    FirstRaised(<<GetPath(deployment, <<K_master, K_hostname>>),
                  GetPath(deployment, <<K_connection, K_api_server, K_port>>),
                  GetPath(deployment, <<K_node>>)>>)

MasterAnswers == {"ok", "http_error", "unreachable"}

\* requests.get(...).json() of get_cluster and get_master
get_json(answer) ==
    CASE answer = "unreachable" -> "ConnectionError"
      [] answer = "http_error" -> response_json(500)
      [] answer = "ok" -> response_json(200)

InitJoin ==
    /\ name_to_job_details = EmptyDict
    /\ name_to_node_details \in
          {EmptyDict} \cup {doc["name"] :> doc : doc \in AgentNodeDocs}
    /\ pending_job_tickets = <<>>
    /\ killed_job_tickets = <<>>
    /\ last = Returned("start", "", EmptyDict)
    /\ created_job_names = {}
    /\ reference_nodes = name_to_node_details
    /\ template_dict = join_node_deployment_template
    /\ join_node_deployment \in JoinDeployments
    /\ actual_dict = join_node_deployment
    /\ optional_key_to_value = EmptyDict
    /\ validation = NotCalled
    /\ given_dict = actual_dict
    /\ revalidation = NotCalled
    /\ filled_dict = actual_dict
    /\ join_pc = "validate"
    /\ join_log = <<>>
    /\ join_error = "none"
    /\ join_runs = 1
    /\ join_previous = NotRun
    /\ in_flight = EmptyDict
    /\ started_from = EmptyStore

join_fixed == <<template_dict, optional_key_to_value, given_dict, revalidation,
                filled_dict, join_node_deployment, join_runs, join_previous,
                created_job_names, concurrent_vars>>

\* __main__: standardize_join_node_deployment
StandardizeJoinNodeDeployment ==
    /\ join_pc = "validate"
    /\ \E missing_key_strs \in Orders(DictionaryItemRemoved(template_dict, actual_dict, Root)) :
          LET filled == validate_and_fill_dict(template_dict, actual_dict,
                                               optional_key_to_value, missing_key_strs)
          IN  /\ actual_dict' = filled.actual_dict
              /\ validation' = [raised |-> filled.raised, key |-> filled.key]
              /\ main_after("validate", filled.raised)
    /\ join_log' = Append(join_log, "validate")
    /\ UNCHANGED <<store_vars, last, reference_nodes, join_fixed>>

\* NodeInitializer.__init__: the client and its create_node, served by the
\* master's create_node
RegisterNode ==
    /\ join_pc = "create_node"
    /\ IF NodeInitializer_arguments(actual_dict) # "none"
       THEN /\ main_after("create_node", NodeInitializer_arguments(actual_dict))
            /\ UNCHANGED <<store_vars, last, reference_nodes, join_log>>
       ELSE /\ join_log' = Append(join_log, "create_node")
            /\ \E reachable \in BOOLEAN :
                  IF reachable
                  THEN LET node_details == Json(actual_dict.map[K_node])
                       IN  /\ create_node(node_details)
                           /\ reference_nodes' =
                                 IF "name" \in DOMAIN node_details
                                 THEN DictSet(reference_nodes, node_details["name"],
                                              node_details)
                                 ELSE reference_nodes
                           /\ main_after("create_node", response_json(last'.status))
                  ELSE /\ main_after("create_node", "ConnectionError")
                       /\ UNCHANGED <<store_vars, last, reference_nodes>>
    /\ UNCHANGED <<actual_dict, validation, join_fixed>>

\* a request of the script that the master answers without changing the store
MasterRequest(step) ==
    /\ join_pc = step
    /\ join_log' = Append(join_log, step)
    /\ \E answer \in MasterAnswers : main_after(step, get_json(answer))
    /\ UNCHANGED <<store_vars, last, reference_nodes, actual_dict, validation, join_fixed>>

\* a step of the script that ends with a shell command
ShellCommand(step) ==
    /\ join_pc = step
    /\ join_log' = Append(join_log, step)
    /\ \E exit_codes \in [1..CommandLines(step) -> {0, 1}] :
          main_after(step, Subprocess_run(bash_returncode(exit_codes)))
    /\ UNCHANGED <<store_vars, last, reference_nodes, actual_dict, validation, join_fixed>>

GetCluster == MasterRequest("get_cluster")

GetMaster == MasterRequest("get_master")

CreateDockerUser == ShellCommand("create_docker_user")

SetupSambaMount == ShellCommand("setup_samba_mount")

\* start_node_agent_service: the config names the node before the command runs
StartNodeAgentService ==
    IF GetPath(actual_dict, <<K_node, K_name>>).raised # "none"
    THEN /\ join_pc = "start_node_agent_service"
         /\ main_after("start_node_agent_service",
                       GetPath(actual_dict, <<K_node, K_name>>).raised)
         /\ UNCHANGED <<store_vars, last, reference_nodes, actual_dict, validation,
                        join_fixed, join_log>>
    ELSE ShellCommand("start_node_agent_service")

StartNodeApiServerService == ShellCommand("start_node_api_server_service")

\* the operator starts the script again with the same deployment file
RunAgain ==
    /\ join_pc \in {"aborted", "done"}
    /\ join_runs < MaxRuns
    /\ join_runs' = join_runs + 1
    /\ join_previous' = [log |-> join_log, error |-> join_error]
    /\ join_pc' = "validate"
    /\ join_log' = <<>>
    /\ join_error' = "none"
    /\ actual_dict' = join_node_deployment
    /\ validation' = NotCalled
    /\ UNCHANGED <<store_vars, last, history_vars, template_dict, optional_key_to_value,
                   given_dict, revalidation, filled_dict, join_node_deployment, concurrent_vars>>

NextJoin ==
    \/ StandardizeJoinNodeDeployment
    \/ RegisterNode
    \/ GetCluster
    \/ GetMaster
    \/ CreateDockerUser
    \/ SetupSambaMount
    \/ StartNodeAgentService
    \/ StartNodeApiServerService
    \/ RunAgain

SpecJoin == InitJoin /\ [][NextJoin]_vars

(***************************************************************************)
(* The master api server serving requests at the same time: the calls of   *)
(* a handler to the store are atomic one by one, and the calls of other    *)
(* handlers may come between them.                                         *)
(***************************************************************************)
Request(op, arg) == [op |-> op, arg |-> arg]

Call(call, arg) == [call |-> call, arg |-> arg]

Requests ==
    {Request("create_job", job_details) : job_details \in JobDocs}
    \cup {Request("delete_job", [name |-> job_name]) : job_name \in JobNames}
    \cup {Request("clean_jobs", [name |-> ""])}

\* create_job pushing the ticket before it writes the record
handler_calls_ticket_first(request) ==
    CASE request.op = "create_job" ->
            <<Call("push_pending_job_ticket", request.arg),
              Call("set_job_details", request.arg)>>
      [] request.op = "delete_job" ->
            <<Call("remove_pending_job_ticket", request.arg),
              Call("push_killed_job_ticket", request.arg)>>
      [] request.op = "clean_jobs" ->
            <<Call("delete_pending_jobs_queue", request.arg),
              Call("delete_killed_jobs_queue", request.arg),
              Call("get_name_to_node_details", request.arg)>>

\* create_job pushing a ticket before and after it writes the record
handler_calls_pushes_twice(request) ==
    CASE request.op = "create_job" ->
            <<Call("push_pending_job_ticket", request.arg),
              Call("set_job_details", request.arg),
              Call("push_pending_job_ticket", request.arg)>>
      [] request.op = "delete_job" ->
            <<Call("remove_pending_job_ticket", request.arg),
              Call("push_killed_job_ticket", request.arg)>>
      [] request.op = "clean_jobs" ->
            <<Call("delete_pending_jobs_queue", request.arg),
              Call("delete_killed_jobs_queue", request.arg),
              Call("get_name_to_node_details", request.arg)>>

\* delete_job pushing the killed ticket twice
handler_calls_kills_twice(request) ==
    CASE request.op = "create_job" ->
            <<Call("set_job_details", request.arg),
              Call("push_pending_job_ticket", request.arg)>>
      [] request.op = "delete_job" ->
            <<Call("remove_pending_job_ticket", request.arg),
              Call("push_killed_job_ticket", request.arg),
              Call("push_killed_job_ticket", request.arg)>>
      [] request.op = "clean_jobs" ->
            <<Call("delete_pending_jobs_queue", request.arg),
              Call("delete_killed_jobs_queue", request.arg),
              Call("get_name_to_node_details", request.arg)>>

\* the calls that a handler makes to the store, in the order of its code
handler_calls(request) ==
    CASE request.op = "create_job" ->
            <<Call("set_job_details", request.arg),
              Call("push_pending_job_ticket", request.arg)>>
      [] request.op = "delete_job" ->
            <<Call("remove_pending_job_ticket", request.arg),
              Call("push_killed_job_ticket", request.arg)>>
      [] request.op = "clean_jobs" ->
            <<Call("delete_pending_jobs_queue", request.arg),
              Call("delete_killed_jobs_queue", request.arg),
              Call("get_name_to_node_details", request.arg)>>

\* the store after one call
call_effect(store, call) ==
    CASE call.call = "set_job_details" ->
            [store EXCEPT !.jobs = set_job_details(@, call.arg["name"], call.arg)]
      [] call.call = "push_pending_job_ticket" ->
            [store EXCEPT !.pending = push_pending_job_ticket(@, call.arg["name"])]
      [] call.call = "remove_pending_job_ticket" ->
            [store EXCEPT !.pending = remove_pending_job_ticket(@, call.arg["name"])]
      [] call.call = "push_killed_job_ticket" ->
            [store EXCEPT !.killed = push_killed_job_ticket(@, call.arg["name"])]
      [] call.call = "delete_pending_jobs_queue" ->
            [store EXCEPT !.pending = delete_pending_jobs_queue]
      [] call.call = "delete_killed_jobs_queue" ->
            [store EXCEPT !.killed = delete_killed_jobs_queue]
      [] call.call = "get_name_to_node_details" -> store

Store ==
    [jobs |-> name_to_job_details, pending |-> pending_job_tickets,
     killed |-> killed_job_tickets]

\* stores that earlier requests have left
StartStores ==
    {EmptyStore,
     [jobs |-> ("j1" :> [name |-> "j1", image |-> "v1"]), pending |-> <<"j1">>,
      killed |-> <<>>],
     [jobs |-> ("j1" :> [name |-> "j1", image |-> "v2"])
                  @@ ("j2" :> [name |-> "j2", image |-> "v1"]),
      pending |-> <<"j2", "j1">>, killed |-> <<"j1">>]}

Received == [calls_done |-> 0, crashed |-> FALSE]

InitConcurrent ==
    /\ started_from \in StartStores
    /\ name_to_job_details = started_from.jobs
    /\ pending_job_tickets = started_from.pending
    /\ killed_job_tickets = started_from.killed
    /\ name_to_node_details = EmptyDict
    /\ \E requests \in SUBSET Requests :
          /\ Cardinality(requests) \in 1..MaxRequests
          /\ in_flight = [request \in requests |-> Received]
    /\ last = Returned("start", "", EmptyDict)
    /\ created_job_names = {}
    /\ reference_nodes = EmptyDict
    /\ template_dict = Map(EmptyDict)
    /\ actual_dict = Map(EmptyDict)
    /\ optional_key_to_value = EmptyDict
    /\ validation = NotCalled
    /\ given_dict = Map(EmptyDict)
    /\ revalidation = NotCalled
    /\ filled_dict = Map(EmptyDict)
    /\ join_node_deployment = Map(EmptyDict)
    /\ join_pc = "not_started"
    /\ join_log = <<>>
    /\ join_error = "none"
    /\ join_runs = 0
    /\ join_previous = NotRun

Running(request) ==
    /\ request \in DOMAIN in_flight
    /\ ~in_flight[request].crashed
    /\ in_flight[request].calls_done < Len(handler_calls(request))

\* the next call of a handler to the store
StoreCall(request) ==
    /\ Running(request)
    /\ LET after ==
              call_effect(Store, handler_calls(request)[in_flight[request].calls_done + 1])
       IN  /\ name_to_job_details' = after.jobs
           /\ pending_job_tickets' = after.pending
           /\ killed_job_tickets' = after.killed
    /\ in_flight' = [in_flight EXCEPT ![request].calls_done = @ + 1]
    /\ UNCHANGED <<name_to_node_details, last, history_vars, validator_vars, join_vars,
                   started_from>>

CreateJobCall == \E request \in Requests : request.op = "create_job" /\ StoreCall(request)

DeleteJobCall == \E request \in Requests : request.op = "delete_job" /\ StoreCall(request)

CleanJobsCall == \E request \in Requests : request.op = "clean_jobs" /\ StoreCall(request)

\* the server process dies while a handler is between two calls
Crash ==
    \E request \in Requests :
        /\ Running(request)
        /\ in_flight[request].calls_done > 0
        /\ in_flight' = [in_flight EXCEPT ![request].crashed = TRUE]
        /\ UNCHANGED <<store_vars, last, history_vars, validator_vars, join_vars,
                       started_from>>

NextConcurrent ==
    \/ CreateJobCall
    \/ DeleteJobCall
    \/ CleanJobsCall
    \/ Crash

SpecConcurrent == InitConcurrent /\ [][NextConcurrent]_vars

(***************************************************************************)
(* Properties of the job and node handlers, under Spec.                    *)
(***************************************************************************)
\* what get_job(job_name) hands to its caller in the current state
get_job_response(job_name) == ReturnedLookup("get_job", job_name, get_job_details(job_name))

get_node_response(node_name) ==
    ReturnedLookup("get_node", node_name, get_node_details(node_name))

\* the last request was create_job with a document that has a name
CreatedJob == last.op = "create_job" /\ "name" \in DOMAIN last.arg

\* C1: right after create_job(J), for a document J with a name, get_job(J.name)
\* succeeds and returns a record equal to J, whatever the store held before.
C1_CreateThenGet ==
    CreatedJob =>
        /\ last.status = 200
        /\ get_job_response(last.arg["name"]).status = 200
        /\ get_job_response(last.arg["name"]).body = last.arg

\* C1 witness: create_job of the second document of j1 has replaced the first
\* one (j1 has two pending tickets, so it was created before).
C1_Witness ==
    /\ CreatedJob
    /\ last.arg = [name |-> "j1", image |-> "v2"]
    /\ Count(pending_job_tickets, "j1") = 2
    /\ get_job_response("j1").body = last.arg

\* C2 as stated: after create_job(J) the pending queue holds J.name exactly
\* one time, as its last ticket.
C2_Original ==
    CreatedJob =>
        /\ Count(pending_job_tickets, last.arg["name"]) = 1
        /\ pending_job_tickets[Len(pending_job_tickets)] = last.arg["name"]

\* C2 amended: create_job(J) appends one ticket for J.name after the tickets
\* that were already queued, so the queue holds one more ticket for J.name
\* than before (exactly one only when none was pending).
C2_CreateAppendsOneTicket ==
    [][(last'.op = "create_job" /\ "name" \in DOMAIN last'.arg) =>
          pending_job_tickets' = Append(pending_job_tickets, last'.arg["name"])]_vars

\* C2 witness: create_job(J) completed while a ticket for J.name was already
\* pending, and the queue now holds two.
C2_Witness ==
    /\ CreatedJob
    /\ last.status = 200
    /\ last.arg["name"] = "j2"
    /\ pending_job_tickets = <<"j2", "j2">>

\* C3: delete_job(name) succeeds, leaves no pending ticket for the name and
\* adds exactly one killed ticket for it, also when the name had no pending
\* ticket or no record.
C3_DeleteJobTickets ==
    [][last'.op = "delete_job" =>
          /\ last'.status = 200
          /\ Count(pending_job_tickets', last'.arg) = 0
          /\ Count(killed_job_tickets', last'.arg) = Count(killed_job_tickets, last'.arg) + 1
          /\ Len(killed_job_tickets') = Len(killed_job_tickets) + 1]_vars

\* C3 witness: delete_job succeeded twice on a name that has no job record,
\* hence never had a pending ticket.
C3_Witness ==
    /\ last.op = "delete_job"
    /\ last.status = 200
    /\ last.arg \notin DOMAIN name_to_job_details
    /\ Count(killed_job_tickets, last.arg) = 2

\* C4: every name ever passed to create_job keeps its record, and a record
\* changes only by a create_job of the same name: delete_job, clean_jobs and
\* the node handlers leave all job records as they are.
C4_JobRecordsPersist ==
    [][/\ \A job_name \in created_job_names' : job_name \in DOMAIN name_to_job_details'
       /\ \A job_name \in DOMAIN name_to_job_details :
             /\ job_name \in DOMAIN name_to_job_details'
             /\ name_to_job_details'[job_name] # name_to_job_details[job_name] =>
                   /\ last'.op = "create_job"
                   /\ "name" \in DOMAIN last'.arg
                   /\ last'.arg["name"] = job_name]_vars

\* C4 witness: after clean_jobs both created jobs still have their records.
C4_Witness ==
    /\ last.op = "clean_jobs"
    /\ created_job_names = JobNames
    /\ DOMAIN name_to_job_details = JobNames

\* C5: after clean_jobs, however it ended and whatever node records exist,
\* both ticket queues are empty.
C5_CleanJobsEmptiesQueues ==
    last.op = "clean_jobs" =>
        /\ pending_job_tickets = <<>>
        /\ killed_job_tickets = <<>>

\* C5 witness: clean_jobs stopped on a node record without containers while
\* jobs had been created, and both queues are empty.
C5_Witness ==
    /\ last.op = "clean_jobs"
    /\ last.status = 500
    /\ last.body = [error |-> "KeyError"]
    /\ created_job_names # {}
    /\ pending_job_tickets = <<>>
    /\ killed_job_tickets = <<>>

\* C6: the node listing, read as a map by name in whatever order the store
\* lists it, equals the reference map of the create_node and delete_node
\* calls so far; create_node of a named document and delete_node of any name
\* succeed.
C6_NodeListingIsReference ==
    /\ \A order \in Orders(DOMAIN get_name_to_node_details) :
          MasterApiClientV1_get_name_to_node_details(
              Values(get_name_to_node_details, order)) = reference_nodes
    /\ (last.op = "create_node" /\ "name" \in DOMAIN last.arg) => last.status = 200
    /\ last.op = "delete_node" => last.status = 200

\* C6 witness: two nodes are listed, the last create_node having stored a
\* record with another hostname than the other node's.
C6_Witness ==
    /\ last.op = "create_node"
    /\ last.status = 200
    /\ DOMAIN reference_nodes = NodeNames
    /\ \E n \in NodeNames : reference_nodes[n]["hostname"] # last.arg["hostname"]

\* C7: get_job and get_node of a name without a record answer 404.
C7_UnknownNameIsNotFound ==
    /\ (last.op = "get_job" /\ last.arg \notin DOMAIN name_to_job_details) =>
          last.status = 404
    /\ (last.op = "get_node" /\ last.arg \notin DOMAIN name_to_node_details) =>
          last.status = 404

(***************************************************************************)
(* Properties of validate_and_fill_dict, under SpecValidator.              *)
(***************************************************************************)
\* the key paths of a document as parent-to-child key lists
RECURSIVE KeyLists(_)
KeyLists(value) ==
    IF IsMap(value)
    THEN UNION {{<<key>>} \cup {<<key>> \o key_list : key_list \in KeyLists(value.map[key])} :
                key \in DOMAIN value.map}
    ELSE {}

\* the document has a key at every step of the path
RECURSIVE Present(_, _)
Present(value, key_list) ==
    /\ IsMap(value)
    /\ key_list[1] \in DOMAIN value.map
    /\ Len(key_list) = 1 \/ Present(value.map[key_list[1]], Tail(key_list))

\* the value of a document at a path that is present
RECURSIVE ValueAt(_, _)
ValueAt(value, key_list) ==
    IF key_list = <<>> THEN value ELSE ValueAt(value.map[key_list[1]], Tail(key_list))

\* the path in deepdiff's text form
RECURSIVE PathStr(_)
PathStr(key_list) ==
    IF key_list = <<>> THEN Root
    ELSE PathExtend(PathStr(SubSeq(key_list, 1, Len(key_list) - 1)), key_list[Len(key_list)])

\* the first call has ended and no second call was made
Validated == validation # NotCalled /\ revalidation = NotCalled

\* the template's key paths that the descriptor handed in lacks
MissingPaths == {key_list \in KeyLists(template_dict) : ~Present(given_dict, key_list)}

\* those not listed in optional_key_to_value
UnlistedMissingPaths ==
    {key_list \in MissingPaths : PathStr(key_list) \notin DOMAIN optional_key_to_value}

\* those for which neither the path nor a parent of it is an optional key,
\* so that no optional value can supply them
RequiredMissingPaths ==
    {key_list \in MissingPaths :
        \A n \in 1..Len(key_list) :
            PathStr(SubSeq(key_list, 1, n)) \notin DOMAIN optional_key_to_value}

\* the missing paths whose parent the descriptor has
TopMissingPaths ==
    {key_list \in MissingPaths :
        Len(key_list) = 1 \/ Present(given_dict, SubSeq(key_list, 1, Len(key_list) - 1))}

\* C8: when the descriptor lacks a key path of the template that is required
\* (not an optional key, nor below one), validate_and_fill_dict fails with
\* "Key ... not found" naming such a missing path.
C8_MissingRequiredKeyFails ==
    (Validated /\ RequiredMissingPaths # {}) =>
        /\ validation.raised = "KeyNotFound"
        /\ validation.key \in {PathStr(key_list) : key_list \in RequiredMissingPaths}

\* the descriptor has a scalar at a key where the template has a nested dict
TypeMismatch ==
    \E key_list \in KeyLists(template_dict) :
        /\ IsMap(ValueAt(template_dict, key_list))
        /\ Present(given_dict, key_list)
        /\ ~IsMap(ValueAt(given_dict, key_list))

\* C9: when every template path the descriptor lacks is an optional key (and
\* the descriptor has dicts where the template has), validate_and_fill_dict
\* succeeds, the descriptor then holds the optional value at each missing
\* path whose parent it had, and the scalars it had are as they were.
C9_OptionalKeysFilled ==
    (Validated /\ ~TypeMismatch /\ MissingPaths # {} /\ UnlistedMissingPaths = {}) =>
        /\ validation.raised = "none"
        /\ \A key_list \in TopMissingPaths :
              /\ Present(actual_dict, key_list)
              /\ ValueAt(actual_dict, key_list) = optional_key_to_value[PathStr(key_list)]
        /\ \A key_list \in KeyLists(given_dict) :
              /\ Present(actual_dict, key_list)
              /\ ~IsMap(ValueAt(given_dict, key_list)) =>
                    ValueAt(actual_dict, key_list) = ValueAt(given_dict, key_list)

\* C10: a descriptor with a scalar where the template has a nested dict is
\* rejected: validate_and_fill_dict raises.
C10_TypeMismatchRejected ==
    (Validated /\ TypeMismatch) => validation.raised # "none"

\* C11: a second call on the descriptor that a first call filled without
\* raising does not raise either and leaves the descriptor as the first
\* call left it.
C11_Idempotent ==
    revalidation # NotCalled =>
        /\ revalidation.raised = "none"
        /\ actual_dict = filled_dict

(***************************************************************************)
(* Properties of the join script, under SpecJoin.                          *)
(***************************************************************************)
IsPrefix(s, t) == Len(s) <= Len(t) /\ s = SubSeq(t, 1, Len(s))

\* the steps of the bootstrap in the order of the contract
JoinOrder ==
    <<"validate", "create_node", "get_cluster", "get_master", "create_docker_user",
      "setup_samba_mount", "start_node_agent_service", "start_node_api_server_service">>

ValidationFailed == validation.raised \notin {"none", "not_called"}

\* C12: what a run of the join script has done is always a beginning of the
\* fixed order of steps, a step is started only while no earlier step of the
\* run has raised, and a run whose deployment failed the validation has done
\* nothing but the validation: no request to the master, no shell command.
C12_FixedOrder ==
    [][/\ IsPrefix(join_log', JoinOrder)
       /\ Len(join_log') > Len(join_log) => join_error = "none"
       /\ ValidationFailed' => join_log' = <<"validate">>]_vars

\* a run that went through all the steps
C12_Witness == join_pc = "done" /\ join_log = JoinOrder

\* the node of the deployment as the master is sent it
JoiningNode == Json(join_node_deployment.map[K_node])

RecordsNamed(node_name) ==
    {key \in DOMAIN name_to_node_details :
        "name" \in DOMAIN name_to_node_details[key]
        /\ name_to_node_details[key]["name"] = node_name}

\* C13: a run that a failing shell script ended leaves the record of its node
\* in the store; a run started after such a run is not refused by the master
\* (its create_node is answered with success and the run goes on to the next
\* step), and from its registration on the store holds the record of the
\* deployment's node, and no other record, for the name.
C13_AbortKeepsRecordAndRerunRegisters ==
    /\ join_error = "Exception" =>
          /\ get_node_details(JoiningNode["name"]).found
          /\ get_node_details(JoiningNode["name"]).record = JoiningNode
    /\ join_previous.error = "Exception" =>
          /\ last.op = "create_node" /\ last.status = 200
          /\ join_log = <<"validate", "create_node">> =>
                join_error \in {"none", "ConnectionError"}
          /\ Len(join_log) >= 2 /\ join_error # "ConnectionError" =>
                /\ RecordsNamed(JoiningNode["name"]) = {JoiningNode["name"]}
                /\ name_to_node_details[JoiningNode["name"]] = JoiningNode

\* a second run that went through all the steps after a shell script had ended
\* the first one
C13_Witness ==
    /\ join_previous.error = "Exception"
    /\ join_pc = "done"
    /\ join_log = JoinOrder

(***************************************************************************)
(* Properties of requests served at the same time, under SpecConcurrent.   *)
(***************************************************************************)
\* the store after the calls of a handler from the i-th on, nothing between
RECURSIVE run_calls(_, _, _)
run_calls(store, calls, i) ==
    IF i > Len(calls) THEN store
    ELSE run_calls(call_effect(store, calls[i]), calls, i + 1)

\* the store after the requests were served one after another in an order
RECURSIVE Sequential(_, _, _)
Sequential(store, order, i) ==
    IF i > Len(order) THEN store
    ELSE Sequential(run_calls(store, handler_calls(order[i]), 1), order, i + 1)

SequentialOutcomes(store, requests) ==
    {Sequential(store, order, 1) : order \in Orders(requests)}

\* how many tickets each name has in a queue
Tickets(queue) == [job_name \in JobNames |-> Count(queue, job_name)]

AllServed ==
    \A request \in DOMAIN in_flight :
        /\ ~in_flight[request].crashed
        /\ in_flight[request].calls_done = Len(handler_calls(request))

JobRequestsOnly ==
    \A request \in DOMAIN in_flight : request.op \in {"create_job", "delete_job"}

\* C14: when create_job and delete_job requests were served at the same time,
\* their store calls interleaved in any way, the job records and the tickets
\* of each name in the pending and in the killed queue, counted with their
\* multiplicity, are those that serving the requests one after another in
\* some order leaves.
C14_SerializableOutcome ==
    AllServed /\ JobRequestsOnly =>
        \E outcome \in SequentialOutcomes(started_from, DOMAIN in_flight) :
            /\ name_to_job_details = outcome.jobs
            /\ Tickets(pending_job_tickets) = Tickets(outcome.pending)
            /\ Tickets(killed_job_tickets) = Tickets(outcome.killed)

\* create_job of two names and delete_job of one of them served, the delete
\* having come between the two calls of the create of its name: the ticket
\* that create_job pushed after the removal is pending
C14_Witness ==
    /\ AllServed
    /\ DOMAIN in_flight =
          {Request("create_job", [name |-> "j1", image |-> "v1"]),
           Request("create_job", [name |-> "j2", image |-> "v1"]),
           Request("delete_job", [name |-> "j1"])}
    /\ started_from = EmptyStore
    /\ pending_job_tickets = <<"j2", "j1">>
    /\ killed_job_tickets = <<"j1">>

\* C15: in every state, between the two store calls of a create_job and after
\* a crash between them included, every ticket of the pending queue names a
\* job that has a record.
C15_PendingTicketsHaveRecords ==
    \A i \in 1..Len(pending_job_tickets) :
        pending_job_tickets[i] \in DOMAIN name_to_job_details

\* a create_job that crashed between its two calls, which left the record of
\* a job that has no ticket, while another create_job was served
C15_Witness ==
    \E crashed \in DOMAIN in_flight, served \in DOMAIN in_flight :
        /\ crashed.op = "create_job" /\ in_flight[crashed].crashed
        /\ crashed.arg["name"] \in DOMAIN name_to_job_details
        /\ Count(pending_job_tickets, crashed.arg["name"]) = 0
        /\ served.op = "create_job" /\ in_flight[served].calls_done = 2
        /\ Count(pending_job_tickets, served.arg["name"]) = 1

OneConcurrentPair(job_details) ==
    /\ DOMAIN in_flight =
          {Request("create_job", job_details),
           Request("delete_job", [name |-> job_details["name"]])}
    /\ AllServed

\* C20: when create_job(J) and delete_job(J.name) were served at the same
\* time and nothing else was, the store is the one that one of the two orders
\* of serving them one after the other leaves: the record of the name is J,
\* the killed queue has one ticket more, a ticket for the name, and the
\* pending queue holds no ticket or one ticket for the name.
C20_SameNameOutcome ==
    \A job_details \in JobDocs :
        OneConcurrentPair(job_details) =>
            /\ Store \in SequentialOutcomes(started_from, DOMAIN in_flight)
            /\ name_to_job_details[job_details["name"]] = job_details
            /\ killed_job_tickets = Append(started_from.killed, job_details["name"])
            /\ Count(pending_job_tickets, job_details["name"]) \in {0, 1}

\* the create and the delete of a name that had a pending ticket were served
\* at the same time, and the name has one pending ticket: the removal came
\* before the push
C20_Witness ==
    /\ OneConcurrentPair([name |-> "j1", image |-> "v2"])
    /\ started_from.pending = <<"j1">>
    /\ pending_job_tickets = <<"j1">>
    /\ killed_job_tickets = <<"j1">>

\* C16: the first store call of a delete_job, whatever other requests are in
\* flight, leaves the pending queue as it was without the tickets of the
\* name: the tickets of other names stay, in their order, and a ticket of
\* the name goes wherever in the queue it is.
C16_FilteredRemoval ==
    [][\A request \in DOMAIN in_flight :
          (/\ request.op = "delete_job"
           /\ in_flight[request].calls_done = 0
           /\ in_flight'[request].calls_done = 1) =>
              pending_job_tickets' =
                  SelectSeq(pending_job_tickets, LAMBDA t : t # request.arg["name"])]_vars

\* a delete_job served alone removed the ticket at the end of a queue of two
\* and left the ticket at its head
C16_Witness ==
    /\ DOMAIN in_flight = {Request("delete_job", [name |-> "j1"])}
    /\ AllServed
    /\ started_from.pending = <<"j2", "j1">>
    /\ pending_job_tickets = <<"j2">>

(***************************************************************************)
(* Properties of clean_jobs, under Spec.                                   *)
(***************************************************************************)
\* the node record has what the fan-out reads
HasContainers(node_details) ==
    /\ "private_ip_address" \in DOMAIN node_details
    /\ "containers" \in DOMAIN node_details

\* one deletion request for every container of every node record
AllContainerUrls ==
    UNION {{ContainerUrl(name_to_node_details[node_name]["private_ip_address"],
                         service_config["api_server_port"], container_name) :
               container_name \in DOMAIN name_to_node_details[node_name]["containers"]} :
           node_name \in DOMAIN name_to_node_details}

\* C17: when every node record lists its containers, clean_jobs succeeds and
\* has sent one deletion request for each container of each node, to the
\* node's private ip address and the api server port, whatever the node
\* agents answered and whether they could be reached.
C17_FanOutReachesEveryContainer ==
    (/\ last.op = "clean_jobs"
     /\ \A node_name \in DOMAIN name_to_node_details :
           HasContainers(name_to_node_details[node_name])) =>
        /\ last.status = 200
        /\ last.sent = AllContainerUrls

(***************************************************************************)
(* Properties of the path decomposition, under SpecValidator.              *)
(***************************************************************************)
\* C18: of every optional path that a call reported missing, the
\* decomposition of its text form is the parent-to-child list of its keys,
\* and a call that ended without raising has left a value at the path.
C18_PathDecomposition ==
    Validated =>
        \A key_list \in TopMissingPaths :
            PathStr(key_list) \in DOMAIN optional_key_to_value =>
                /\ _get_parent_to_child_key_list(PathStr(key_list)) = key_list
                /\ validation.raised = "none" => Present(actual_dict, key_list)

(***************************************************************************)
(* Properties of a clean_jobs that fails, under Spec.                      *)
(***************************************************************************)
\* C19: a clean_jobs whose fan-out stopped on an error has emptied both
\* queues and has left every job record and every node record as it was.
C19_FailedFanOutAfterQueues ==
    [][(last'.op = "clean_jobs" /\ last'.status = 500) =>
          /\ pending_job_tickets' = <<>>
          /\ killed_job_tickets' = <<>>
          /\ name_to_job_details' = name_to_job_details
          /\ name_to_node_details' = name_to_node_details]_vars

\* clean_jobs stopped at an agent that could not be reached, with job and
\* node records in the store
C19_Witness ==
    /\ last.op = "clean_jobs"
    /\ last.status = 500
    /\ last.body = [error |-> "ConnectionError"]
    /\ name_to_job_details # EmptyDict
    /\ name_to_node_details # EmptyDict
    /\ pending_job_tickets = <<>>
    /\ killed_job_tickets = <<>>

====
